---- MODULE Spec2Model ----
(***************************************************************************)
(* Model of src/validator/main.py: the RestrictToTopic validator.          *)
(*                                                                         *)
(* Scores and thresholds are percentages (0.5 is 50), so that comparisons  *)
(* are exact integer comparisons.  The zero-shot classifier and the LLM    *)
(* callable are external: the classifier returns the candidate labels in   *)
(* any order with any scores, or raises; one attempt of the LLM callable   *)
(* raises or returns any response.                                         *)
(***************************************************************************)
EXTENDS Integers, Sequences, FiniteSets, TLC

\* ---------------------------------------------------------------- bounds
\* validate invocations followed in one behaviour
MaxCalls == 2

\* ------------------------------------------------------ program constants
\* model_threshold default, 0.5 (main.py:80 and :106)
DefaultThreshold == 50
\* stop_after_attempt(5) (main.py:154)
MaxAttempts == 5

\* ------------------------------------------------------------ input sets
Topics == {"sports", "politics", "music"}
\* what a well-formed LLM response may name: any topic, listed or not
LlmTopics == Topics \cup {"unlisted"}
Scores == {20, 50, 60, 90}
\* the model_threshold argument; 0 stands for the falsy values 0 and None
ThresholdArgs == {0, DefaultThreshold, 60}

VARIABLES
    valid_topics,         \* self._valid_topics
    invalid_topics,       \* self._invalid_topics
    disable_classifier,   \* self._disable_classifier
    disable_llm,          \* self._disable_llm
    has_model_threshold,  \* whether the attribute self._model_threshold exists
    model_threshold,      \* self._model_threshold (read only when it exists)
    pc,                   \* position of the current validate call
    calls,                \* validate invocations so far
    log,                  \* external calls of the current validate, in order
    zs_candidates,        \* candidate_topics given to the classifier
    llm_candidates,       \* topics given to call_llm
    scored,               \* what the classifier returned: <<[topic, score]>>
    response,             \* what the last attempt of the LLM callable returned
    result,               \* outcome of validate
    message               \* error_message of the outcome

config == <<valid_topics, invalid_topics, disable_classifier, disable_llm,
            has_model_threshold, model_threshold>>
vars == <<valid_topics, invalid_topics, disable_classifier, disable_llm,
          has_model_threshold, model_threshold, pc, calls, log, zs_candidates,
          llm_candidates, scored, response, result, message>>

NoMessage == [kind |-> "none", topics |-> <<>>]
NoResponse == [kind |-> "none", topic |-> "none"]

\* ------------------------------------------------------------ constructor
\* main.py:105-108: a falsy threshold assigns the local name only
ThresholdAttribute(arg) ==
    IF arg = 0 THEN [has |-> FALSE, value |-> 0]
               ELSE [has |-> TRUE, value |-> arg]

Init ==
    /\ valid_topics \in SUBSET Topics
    /\ invalid_topics \in SUBSET Topics
    /\ disable_classifier \in BOOLEAN
    /\ disable_llm \in BOOLEAN
    /\ \E arg \in ThresholdArgs :
          /\ has_model_threshold = ThresholdAttribute(arg).has
          /\ model_threshold = ThresholdAttribute(arg).value
    /\ pc = "idle"
    /\ calls = 0
    /\ log = <<>>
    /\ zs_candidates = {}
    /\ llm_candidates = {}
    /\ scored = <<>>
    /\ response = NoResponse
    /\ result = "none"
    /\ message = NoMessage

\* ---------------------------------------------------------------- helpers
Count(ev) == Cardinality({i \in 1..Len(log) : log[i] = ev})
ClassifierCalls == Count("classifier")
LlmCalls == Count("call_llm")
Raised == Count("raise")
Returned == Count("return")
Attempts == Raised + Returned

\* main.py:246-253: the mode the two flags select
Mode ==
    IF disable_classifier /\ disable_llm THEN "InvalidMode"
    ELSE IF ~disable_classifier /\ ~disable_llm THEN "EnsembleMode"
    ELSE IF disable_classifier /\ ~disable_llm THEN "LlmOnlyMode"
    ELSE "ClassifierOnlyMode"

\* main.py:229-247: the checks validate makes before any model is used
ConfigCheck_noInvalidCheck ==
    IF valid_topics = {} THEN "valid_topics_empty"
    ELSE IF valid_topics \cap invalid_topics # {} THEN "not_disjoint"
    ELSE IF disable_classifier /\ disable_llm THEN "no_model"
    ELSE "ok"

ConfigCheck ==
    IF valid_topics = {} THEN "valid_topics_empty"
    ELSE IF invalid_topics = {} THEN "invalid_topics_empty"
    ELSE IF valid_topics \cap invalid_topics # {} THEN "not_disjoint"
    ELSE IF disable_classifier /\ disable_llm THEN "no_model"
    ELSE "ok"

\* main.py:248-258: where validate goes once the configuration is accepted
Dispatch_fallThrough ==
    IF ~disable_classifier /\ ~disable_llm THEN "ensemble_zero_shot"
    ELSE IF disable_classifier /\ ~disable_llm THEN "call_llm"
    ELSE "ensemble_zero_shot"

Dispatch ==
    IF ~disable_classifier /\ ~disable_llm THEN "ensemble_zero_shot"
    ELSE IF disable_classifier /\ ~disable_llm THEN "call_llm"
    ELSE "zero_shot"

\* main.py:251, 253: the candidates handed on in ensemble and LLM-only mode
LlmCandidates_valid == valid_topics

LlmCandidates == invalid_topics

\* main.py:257: the candidates of the classifier-only mode
ZeroShotCandidates == invalid_topics \cup valid_topics

\* main.py:218-224: the classifier returns one (label, score) per candidate
ClassifierOutputs(cands) ==
    LET n == Cardinality(cands)
        Entry == [topic : cands, score : Scores]
    IN  {s \in [1..n -> Entry] :
            \A i, j \in 1..n : i # j => s[i].topic # s[j].topic}

\* main.py:125, 261, 263: score > self._model_threshold
Exceeds_orEqual(score) == score >= model_threshold

Exceeds(score) == score > model_threshold

\* main.py:123-126: the invalid topics the ensemble flags, in returned order
RECURSIVE FailedFrom(_, _)
FailedFrom(s, i) ==
    IF i > Len(s) THEN <<>>
    ELSE IF Exceeds(s[i].score) /\ s[i].topic \in invalid_topics
         THEN <<s[i].topic>> \o FailedFrom(s, i + 1)
         ELSE FailedFrom(s, i + 1)

Failed_firstOnly(s) ==
    IF FailedFrom(s, 1) = <<>> THEN <<>> ELSE <<FailedFrom(s, 1)[1]>>

Failed(s) == FailedFrom(s, 1)

\* main.py:169-173
verify_topic_notInvalid(topic) ==
    IF topic \notin invalid_topics
    THEN [result |-> "Pass", message |-> NoMessage]
    ELSE [result |-> "Fail",
          message |-> [kind |-> "most_relevant", topics |-> <<topic>>]]

verify_topic(topic) ==
    IF topic \in valid_topics
    THEN [result |-> "Pass", message |-> NoMessage]
    ELSE [result |-> "Fail",
          message |-> [kind |-> "most_relevant", topics |-> <<topic>>]]

\* main.py:136-137: json.loads(response)["topic"], then verify_topic
get_topic_llm_result(r) ==
    IF r.kind = "not_json"
    THEN [result |-> "JSONDecodeError", message |-> NoMessage]
    ELSE IF r.kind = "json_no_topic"
    THEN [result |-> "KeyError", message |-> NoMessage]
    ELSE verify_topic(r.topic)

\* main.py:259-269: the scan of the classifier-only mode
RECURSIVE ScanFrom(_, _, _)
ScanFrom(s, i, on_topic) ==
    IF i > Len(s)
    THEN IF on_topic = <<>>
         THEN [result |-> "Fail",
               message |-> [kind |-> "no_valid_topic", topics |-> <<>>]]
         ELSE [result |-> "Pass", message |-> NoMessage]
    ELSE LET on2 == IF Exceeds(s[i].score) /\ s[i].topic \in valid_topics
                    THEN Append(on_topic, s[i].topic)
                    ELSE on_topic
         IN  IF Exceeds(s[i].score) /\ s[i].topic \in invalid_topics
             THEN [result |-> "Fail",
                   message |-> [kind |-> "invalid_found",
                                topics |-> <<s[i].topic>>]]
             ELSE ScanFrom(s, i + 1, on2)

RECURSIVE ScanEarlyPassFrom(_, _)
ScanEarlyPassFrom(s, i) ==
    IF i > Len(s)
    THEN [result |-> "Fail",
          message |-> [kind |-> "no_valid_topic", topics |-> <<>>]]
    ELSE IF Exceeds(s[i].score) /\ s[i].topic \in valid_topics
    THEN [result |-> "Pass", message |-> NoMessage]
    ELSE IF Exceeds(s[i].score) /\ s[i].topic \in invalid_topics
    THEN [result |-> "Fail",
          message |-> [kind |-> "invalid_found", topics |-> <<s[i].topic>>]]
    ELSE ScanEarlyPassFrom(s, i + 1)

Scan_earlyPass(s) == ScanEarlyPassFrom(s, 1)

Scan(s) == ScanFrom(s, 1, <<>>)

\* main.py:152-156: stop_after_attempt(5), counted in attempts made
StopAfterAttempt_four(n) == n >= MaxAttempts - 1

StopAfterAttempt(n) == n >= MaxAttempts

\* what one attempt of the LLM callable may return
Responses ==
    {[kind |-> "json_topic", topic |-> t] : t \in LlmTopics}
        \cup {[kind |-> "not_json", topic |-> "none"],
              [kind |-> "json_no_topic", topic |-> "none"]}

\* ---------------------------------------------------------------- actions
\* main.py:226-258: validate up to its first call of a model
Validate ==
    /\ pc = "idle"
    /\ calls < MaxCalls
    /\ calls' = calls + 1
    /\ IF ConfigCheck # "ok"
       THEN /\ pc' = "done"
            /\ result' = "ValueError"
            /\ message' = [kind |-> ConfigCheck, topics |-> <<>>]
            /\ UNCHANGED <<log, zs_candidates, llm_candidates>>
       ELSE /\ pc' = Dispatch
            /\ UNCHANGED <<result, message>>
            /\ IF Dispatch = "call_llm"
               THEN /\ log' = Append(log, "call_llm")
                    /\ llm_candidates' = LlmCandidates
                    /\ zs_candidates' = zs_candidates
               ELSE /\ log' = log
                    /\ llm_candidates' = llm_candidates
                    /\ zs_candidates' = IF Dispatch = "zero_shot"
                                        THEN ZeroShotCandidates
                                        ELSE LlmCandidates
    /\ UNCHANGED <<scored, response>>
    /\ UNCHANGED config

\* main.py:119-132: get_topic_ensemble, the classifier having returned
EnsembleZeroShot ==
    /\ pc = "ensemble_zero_shot"
    /\ \E out \in ClassifierOutputs(zs_candidates) :
          /\ scored' = out
          /\ IF Len(out) > 0 /\ ~has_model_threshold
             THEN /\ pc' = "done"
                  /\ result' = "AttributeError"
                  /\ message' = NoMessage
                  /\ log' = Append(log, "classifier")
                  /\ UNCHANGED llm_candidates
             ELSE IF Failed(out) # <<>>
             THEN /\ pc' = "done"
                  /\ result' = "Fail"
                  /\ message' = [kind |-> "invalid_relevant",
                                 topics |-> Failed(out)]
                  /\ log' = Append(log, "classifier")
                  /\ UNCHANGED llm_candidates
             ELSE /\ pc' = "call_llm"
                  /\ log' = log \o <<"classifier", "call_llm">>
                  /\ llm_candidates' = zs_candidates
                  /\ UNCHANGED <<result, message>>
    /\ UNCHANGED <<calls, zs_candidates, response>>
    /\ UNCHANGED config

\* main.py:255-269: the classifier-only mode, the classifier having returned
ClassifierOnly ==
    /\ pc = "zero_shot"
    /\ \E out \in ClassifierOutputs(zs_candidates) :
          /\ scored' = out
          /\ IF Len(out) > 0 /\ ~has_model_threshold
             THEN /\ result' = "AttributeError"
                  /\ message' = NoMessage
             ELSE /\ result' = Scan(out).result
                  /\ message' = Scan(out).message
    /\ pc' = "done"
    /\ log' = Append(log, "classifier")
    /\ UNCHANGED <<calls, zs_candidates, llm_candidates, response>>
    /\ UNCHANGED config

\* main.py:221: an error of the classifier is not caught
ZeroShotRaises ==
    /\ pc \in {"ensemble_zero_shot", "zero_shot"}
    /\ pc' = "done"
    /\ result' = "ClassifierError"
    /\ message' = NoMessage
    /\ log' = Append(log, "classifier")
    /\ UNCHANGED <<calls, zs_candidates, llm_candidates, scored, response>>
    /\ UNCHANGED config

\* main.py:152-167: one attempt of the LLM callable raises
LlmAttemptRaises ==
    /\ pc = "call_llm"
    /\ log' = Append(log, "raise")
    /\ IF StopAfterAttempt(Attempts + 1)
       THEN /\ pc' = "done"
            /\ result' = "LLMError"
            /\ message' = NoMessage
       ELSE UNCHANGED <<pc, result, message>>
    /\ UNCHANGED <<calls, zs_candidates, llm_candidates, scored, response>>
    /\ UNCHANGED config

\* a variant whose retry also covers the parsing of the response
LlmAttemptReturns_retryParse ==
    /\ pc = "call_llm"
    /\ \E r \in Responses :
          /\ response' = r
          /\ log' = Append(log, "return")
          /\ IF r.kind # "json_topic" /\ ~StopAfterAttempt(Attempts + 1)
             THEN UNCHANGED <<pc, result, message>>
             ELSE /\ pc' = "done"
                  /\ result' = get_topic_llm_result(r).result
                  /\ message' = get_topic_llm_result(r).message
    /\ UNCHANGED <<calls, zs_candidates, llm_candidates, scored>>
    /\ UNCHANGED config

\* main.py:134-137, 167: an attempt returns; get_topic_llm parses and verifies
LlmAttemptReturns ==
    /\ pc = "call_llm"
    /\ \E r \in Responses :
          /\ response' = r
          /\ log' = Append(log, "return")
          /\ pc' = "done"
          /\ result' = get_topic_llm_result(r).result
          /\ message' = get_topic_llm_result(r).message
    /\ UNCHANGED <<calls, zs_candidates, llm_candidates, scored>>
    /\ UNCHANGED config

\* validate has returned or raised; the validator is ready for the next call
Return ==
    /\ pc = "done"
    /\ pc' = "idle"
    /\ log' = <<>>
    /\ zs_candidates' = {}
    /\ llm_candidates' = {}
    /\ scored' = <<>>
    /\ response' = NoResponse
    /\ result' = "none"
    /\ message' = NoMessage
    /\ UNCHANGED calls
    /\ UNCHANGED config

Next ==
    \/ Validate
    \/ EnsembleZeroShot
    \/ ClassifierOnly
    \/ ZeroShotRaises
    \/ LlmAttemptRaises
    \/ LlmAttemptReturns
    \/ Return

Spec == Init /\ [][Next]_vars

\* ------------------------------------------------------------- properties
Malformed == {"not_json", "json_no_topic"}
ParseErrors == {"JSONDecodeError", "KeyError"}
ScoredIdx == 1..Len(scored)
TopicsOf(seq) == {seq[i] : i \in 1..Len(seq)}
MinOf(S) == CHOOSE m \in S : \A k \in S : m <= k

\* positions of the classifier's output that exceed a threshold th
InvalidOver(th) ==
    {i \in ScoredIdx : scored[i].score > th /\ scored[i].topic \in invalid_topics}
ValidOver(th) ==
    {i \in ScoredIdx : scored[i].score > th /\ scored[i].topic \in valid_topics}

ConfigBad ==
    \/ valid_topics = {}
    \/ invalid_topics = {}
    \/ valid_topics \cap invalid_topics # {}
    \/ (disable_classifier /\ disable_llm)

\* C1: in Ensemble mode, once the classifier has returned some invalid topic
\* with score > threshold, validate has returned Fail, the message lists
\* exactly the invalid topics over the threshold, and neither call_llm nor
\* the LLM callable has been invoked.
C1_EnsembleShortCircuit ==
    (/\ Mode = "EnsembleMode"
     /\ has_model_threshold
     /\ InvalidOver(model_threshold) # {})
    => /\ pc = "done"
       /\ result = "Fail"
       /\ message.kind = "invalid_relevant"
       /\ TopicsOf(message.topics)
             = {scored[i].topic : i \in InvalidOver(model_threshold)}
       /\ LlmCalls = 0
       /\ Attempts = 0

C1_Witness ==
    /\ Mode = "EnsembleMode"
    /\ has_model_threshold
    /\ Cardinality(InvalidOver(model_threshold)) = 2
    /\ result = "Fail"
    /\ Len(message.topics) = 2

\* C2: the LLM is consulted only in LLM-only mode or in Ensemble mode with no
\* invalid topic over the threshold; when it returns a well-formed response
\* naming t, the verdict is Pass exactly when t is in valid_topics, and
\* otherwise Fail with a message naming t.
C2_VerdictIsValidMembership ==
    /\ (LlmCalls > 0 =>
           \/ Mode = "LlmOnlyMode"
           \/ (Mode = "EnsembleMode" /\ InvalidOver(model_threshold) = {}))
    /\ (response.kind = "json_topic" =>
           /\ pc = "done"
           /\ result \in {"Pass", "Fail"}
           /\ (result = "Pass" <=> response.topic \in valid_topics)
           /\ (result = "Fail" =>
                  message = [kind |-> "most_relevant",
                             topics |-> <<response.topic>>]))

C2_Witness ==
    /\ Mode = "EnsembleMode"
    /\ response.kind = "json_topic"
    /\ response.topic \notin (valid_topics \cup invalid_topics)
    /\ result = "Fail"
    /\ message.topics = <<response.topic>>

\* C3: in ClassifierOnly mode the classifier scores invalid_topics and
\* valid_topics together; the verdict is Fail naming the first returned
\* invalid topic over the threshold if there is one, else Pass if some valid
\* topic is over the threshold, else Fail "no valid topic found".
C3_ClassifierOnlyVerdict ==
    (/\ Mode = "ClassifierOnlyMode"
     /\ has_model_threshold
     /\ scored # <<>>)
    => /\ pc = "done"
       /\ zs_candidates = invalid_topics \cup valid_topics
       /\ {scored[i].topic : i \in ScoredIdx} = zs_candidates
       /\ IF InvalidOver(model_threshold) # {}
          THEN /\ result = "Fail"
               /\ message =
                     [kind |-> "invalid_found",
                      topics |-> <<scored[MinOf(InvalidOver(model_threshold))].topic>>]
          ELSE IF ValidOver(model_threshold) # {}
          THEN result = "Pass"
          ELSE /\ result = "Fail"
               /\ message.kind = "no_valid_topic"

C3_Witness ==
    /\ Mode = "ClassifierOnlyMode"
    /\ has_model_threshold
    /\ result = "Fail"
    /\ message.kind = "invalid_found"
    /\ \E i \in ValidOver(model_threshold) :
          \E j \in InvalidOver(model_threshold) : i < j

C5_StrictThreshold ==
    (has_model_threshold /\ scored # <<>>) =>
       /\ \A i \in ScoredIdx :
             scored[i].score = model_threshold =>
                ~(/\ message.kind \in {"invalid_relevant", "invalid_found"}
                  /\ scored[i].topic \in TopicsOf(message.topics))
       /\ (\A i \in ScoredIdx : scored[i].score <= model_threshold) =>
             /\ Mode = "EnsembleMode" => LlmCalls = 1
             /\ Mode = "ClassifierOnlyMode" =>
                   (result = "Fail" /\ message.kind = "no_valid_topic")

C5_Witness ==
    /\ Mode = "EnsembleMode"
    /\ has_model_threshold
    /\ \E i \in ScoredIdx :
          /\ scored[i].score = model_threshold
          /\ scored[i].topic \in invalid_topics
    /\ \A i \in ScoredIdx : scored[i].score <= model_threshold
    /\ LlmCalls = 1

\* C6: the LLM callable is attempted at most 5 times; while fewer than 5
\* attempts have raised, validate is still retrying; a well-formed response
\* after k <= 4 failures gives the verdict of that response; 5 failures end
\* validate with the error after exactly 5 invocations.
C6_RetryUpToFive ==
    /\ Attempts <= MaxAttempts
    /\ (result = "LLMError" =>
           (pc = "done" /\ Raised = MaxAttempts /\ Returned = 0))
    /\ (Raised = MaxAttempts => result = "LLMError")
    /\ ((LlmCalls = 1 /\ Returned = 0 /\ Raised < MaxAttempts) =>
           (pc = "call_llm" /\ result = "none"))
    /\ ((Returned = 1 /\ response.kind = "json_topic") =>
           /\ Raised <= MaxAttempts - 1
           /\ pc = "done"
           /\ result = IF response.topic \in valid_topics THEN "Pass" ELSE "Fail")

C6_Witness ==
    /\ Raised = MaxAttempts - 1
    /\ Returned = 1
    /\ response.kind = "json_topic"
    /\ result = "Pass"

\* C7 (as stated): after construction with a falsy threshold, a validate call
\* in Ensemble or ClassifierOnly mode treats the classifier's scores as with
\* threshold 0.5.
C7_FalsyThresholdActsAsDefault ==
    (~has_model_threshold /\ scored # <<>>) =>
       /\ result # "AttributeError"
       /\ Mode = "EnsembleMode" =>
             IF InvalidOver(DefaultThreshold) # {}
             THEN result = "Fail" /\ message.kind = "invalid_relevant"
             ELSE LlmCalls = 1
       /\ Mode = "ClassifierOnlyMode" =>
             IF InvalidOver(DefaultThreshold) # {}
             THEN result = "Fail" /\ message.kind = "invalid_found"
             ELSE IF ValidOver(DefaultThreshold) # {}
             THEN result = "Pass"
             ELSE result = "Fail" /\ message.kind = "no_valid_topic"

\* C8: one validate makes at most one classifier call and at most one
\* call_llm, the classifier call before anything of the LLM; LLM-only mode
\* never calls the classifier and ClassifierOnly mode never calls the LLM.
C8_OneCallEachInOrder ==
    /\ ClassifierCalls <= 1
    /\ LlmCalls <= 1
    /\ \A i, j \in 1..Len(log) :
          (i < j /\ log[i] # "classifier") => log[j] # "classifier"
    /\ (Attempts > 0 => (LlmCalls = 1 /\ log[Len(log) - Attempts] = "call_llm"))
    /\ (Mode = "LlmOnlyMode" => ClassifierCalls = 0)
    /\ (Mode = "ClassifierOnlyMode" => (LlmCalls = 0 /\ Attempts = 0))

C8_Witness ==
    /\ pc = "done"
    /\ log = <<"classifier", "call_llm", "raise", "return">>

\* C9: a malformed response ends validate with the parse error: no attempt
\* follows a returned response, so with no raising attempt the callable was
\* invoked exactly once, and no verdict is produced.
C9_MalformedNotRetried ==
    /\ Returned <= 1
    /\ (response.kind \in Malformed =>
           /\ pc = "done"
           /\ result \in ParseErrors
           /\ log[Len(log)] = "return"
           /\ (Raised = 0 => Attempts = 1))

C9_Witness ==
    /\ response.kind = "not_json"
    /\ Attempts = 1
    /\ result = "JSONDecodeError"

\* C10: in Ensemble and LLM-only mode the LLM is given exactly the
\* invalid_topics; an answer among the candidates gives Fail, and Pass comes
\* only from an answer outside the candidates that is in valid_topics.
C10_CandidateAnswerFails ==
    /\ (LlmCalls > 0 =>
           /\ Mode \in {"EnsembleMode", "LlmOnlyMode"}
           /\ llm_candidates = invalid_topics)
    /\ ((response.kind = "json_topic" /\ response.topic \in llm_candidates) =>
           (pc = "done" /\ result = "Fail"))
    /\ ((result = "Pass" /\ Mode \in {"EnsembleMode", "LlmOnlyMode"}) =>
           /\ response.kind = "json_topic"
           /\ response.topic \notin llm_candidates
           /\ response.topic \in valid_topics)

C10_Witness ==
    /\ Mode = "LlmOnlyMode"
    /\ response.kind = "json_topic"
    /\ response.topic \in llm_candidates
    /\ result = "Fail"

====
